---- MODULE Spec2Model ----
(***************************************************************************)
(* Model of app.py: the tolerant JSON extraction routine                   *)
(* (extract_json_from_response, fix_truncated_json) and the two request    *)
(* handlers that drive it over a ladder of token budgets                   *)
(* (generate_questions, evaluate).                                         *)
(*                                                                         *)
(* A text is a sequence of tokens.  A token is one character ("{", "\"",   *)
(* " ") or a run of characters that the scanners treat alike and that is   *)
(* never split: a word without brackets, quotes, backslashes, backticks or *)
(* whitespace ("type", "a"), or a markdown fence marker: FENCE is three    *)
(* backticks, FENCEJSON is three backticks followed by json.  A word never *)
(* follows a backslash in a text of the model.                             *)
(***************************************************************************)
EXTENDS Integers, Sequences, FiniteSets, TLC

QUOTE  == "\""
BSLASH == "\\"
FENCE  == "FENCE"
FENCEJSON == "FENCEJSON"
NEWLINE == "\n"
SPACE == " "

\* str.strip() removes these from both ends; json skips them between tokens
Whitespace == {SPACE, NEWLINE}

\* characters json.loads refuses to find raw inside a string (strict mode)
ControlChars == {NEWLINE}

Digits == {"0", "1", "3", "4", "5", "7"}

DigitVal(d) ==
  CASE d = "0" -> 0 [] d = "1" -> 1 [] d = "3" -> 3
    [] d = "4" -> 4 [] d = "5" -> 5 [] d = "7" -> 7

(***************************************************************************)
(* json.loads.  A decoded value is a tagged tuple:                         *)
(*   <<"str", chars>>  <<"num", n>>  <<"null">>  <<"true">>  <<"false">>   *)
(*   <<"float", neg, whole, fraction digits>>  <<"float", "inf">>          *)
(*   <<"float", "-inf">>  <<"float", "nan">>                               *)
(*   <<"arr", values>>  <<"obj", <<key, value>> pairs in insertion order>> *)
(* The decoder is written as the automaton it is: one step per character,  *)
(* the open arrays and objects on a stack.                                 *)
(***************************************************************************)
NoValue == <<"none">>

\* F applied to the value of x: a loop over a text is written as the loop
\* over its first half, then the loop over its second half from the state
\* the first half ends in
Then(x, F(_)) == CHOOSE r \in {F(v) : v \in {x}} : TRUE

\* the two-character escapes of the alphabet that json accepts
ValidEscape(c) == c \in {QUOTE, BSLASH}

RECURSIVE DictSet(_, _, _)
\* dict assignment: a repeated key keeps its place and takes the new value
DictSet(pairs, k, v) ==
  IF pairs = <<>> THEN << <<k, v>> >>
  ELSE IF Head(pairs)[1] = k THEN << <<k, v>> >> \o Tail(pairs)
  ELSE <<Head(pairs)>> \o DictSet(Tail(pairs), k, v)

\* an open array or object: the items read so far, the key that waits for
\* its value, and what may come next
Frame(t, expect) == [t |-> t, items |-> <<>>, key |-> <<>>, expect |-> expect]

DecoderInit ==
  [stack |-> <<>>, mode |-> "val", acc |-> <<>>, escaped |-> FALSE,
   neg |-> FALSE, n |-> 0, digits |-> "none", frac |-> <<>>, top |-> NoValue,
   bad |-> FALSE]

Bad(st) == [st EXCEPT !.bad = TRUE]

Expect(st) ==
  IF st.stack = <<>> THEN (IF st.top = NoValue THEN "value" ELSE "end")
  ELSE st.stack[Len(st.stack)].expect

ValueOK(st) == Expect(st) \in {"value", "value_or_end"}

KeyOK(st) == Expect(st) \in {"key", "key_or_end"}

\* a value is complete: it is the document, an element, a key or a member
Emit(st, v) ==
  LET d == Len(st.stack)
      f == st.stack[d]
  IN IF d = 0 THEN [st EXCEPT !.top = v]
     ELSE IF f.t = "arr"
       THEN [st EXCEPT !.stack[d].items = Append(@, v), !.stack[d].expect = "comma_or_end"]
     ELSE IF f.expect \in {"key", "key_or_end"}
       THEN [st EXCEPT !.stack[d].key = v[2], !.stack[d].expect = "colon"]
     ELSE [st EXCEPT !.stack[d].items = DictSet(@, f.key, v),
                     !.stack[d].expect = "comma_or_end"]

\* the array or object on top of the stack is closed
Close(st) ==
  LET d == Len(st.stack)
      f == st.stack[d]
  IN Emit([st EXCEPT !.stack = SubSeq(@, 1, d - 1)], <<f.t, f.items>>)

\* a character between values (scan_once, JSONArray, JSONObject)
ValStep(st, c) ==
  LET d == Len(st.stack)
  IN IF c \in Whitespace THEN st
     ELSE IF c = QUOTE
       THEN IF ValueOK(st) \/ KeyOK(st)
              THEN [st EXCEPT !.mode = "str", !.acc = <<>>, !.escaped = FALSE]
              ELSE Bad(st)
     ELSE IF c \in {"{", "["}
       THEN IF ValueOK(st)
              THEN [st EXCEPT !.stack = Append(@, IF c = "{" THEN Frame("obj", "key_or_end")
                                                            ELSE Frame("arr", "value_or_end"))]
              ELSE Bad(st)
     ELSE IF c = "}"
       THEN IF d > 0 /\ st.stack[d].t = "obj" /\ Expect(st) \in {"key_or_end", "comma_or_end"}
              THEN Close(st) ELSE Bad(st)
     ELSE IF c = "]"
       THEN IF d > 0 /\ st.stack[d].t = "arr" /\ Expect(st) \in {"value_or_end", "comma_or_end"}
              THEN Close(st) ELSE Bad(st)
     ELSE IF c = ","
       THEN IF Expect(st) = "comma_or_end"
              THEN [st EXCEPT !.stack[d].expect = IF st.stack[d].t = "arr" THEN "value" ELSE "key"]
              ELSE Bad(st)
     ELSE IF c = ":"
       THEN IF Expect(st) = "colon" THEN [st EXCEPT !.stack[d].expect = "value"] ELSE Bad(st)
     ELSE IF c \in {"null", "true", "false"}
       THEN IF ValueOK(st) THEN Emit(st, <<c>>) ELSE Bad(st)
     ELSE IF c \in {"Infinity", "NaN"}
       THEN IF ValueOK(st)
              THEN Emit(st, <<"float", IF c = "NaN" THEN "nan" ELSE "inf">>)
              ELSE Bad(st)
     ELSE IF c = "-"
       THEN IF ValueOK(st)
              THEN [st EXCEPT !.mode = "num", !.neg = TRUE, !.n = 0, !.digits = "none"]
              ELSE Bad(st)
     ELSE IF c \in Digits
       THEN IF ValueOK(st)
              THEN [st EXCEPT !.mode = "num", !.neg = FALSE, !.n = DigitVal(c),
                              !.digits = IF c = "0" THEN "zero" ELSE "open"]
              ELSE Bad(st)
     ELSE Bad(st)

\* a character inside a string (py_scanstring)
StrStep(st, c) ==
  IF st.escaped
    THEN IF ValidEscape(c)
           THEN [st EXCEPT !.acc = Append(@, c), !.escaped = FALSE]
           ELSE Bad(st)
  ELSE IF c = QUOTE THEN Emit([st EXCEPT !.mode = "val"], <<"str", st.acc>>)
  ELSE IF c = BSLASH THEN [st EXCEPT !.escaped = TRUE]
  ELSE IF c \in ControlChars THEN Bad(st)
  ELSE [st EXCEPT !.acc = Append(@, c)]

\* the number read so far is complete
EndNumber(st) ==
  IF st.digits \in {"none", "dot"} THEN Bad(st)
  ELSE IF st.digits = "frac"
    THEN Emit([st EXCEPT !.mode = "val"], <<"float", st.neg, st.n, st.frac>>)
  ELSE Emit([st EXCEPT !.mode = "val"], <<"num", IF st.neg THEN 0 - st.n ELSE st.n>>)

\* a character after the start of a number: NUMBER_RE is
\* (-?(?:0|[1-9]\d*))(\.\d+)?, and -Infinity is a constant; the alphabet has
\* no exponent
NumStep(st, c) ==
  IF c \in Digits
    THEN IF st.digits = "none"
           THEN [st EXCEPT !.n = DigitVal(c), !.digits = IF c = "0" THEN "zero" ELSE "open"]
         ELSE IF st.digits = "open" THEN [st EXCEPT !.n = 10 * @ + DigitVal(c)]
         ELSE IF st.digits \in {"dot", "frac"}
           THEN [st EXCEPT !.frac = Append(@, c), !.digits = "frac"]
         ELSE Bad(st)
  ELSE IF c = "."
    THEN IF st.digits \in {"zero", "open"}
           THEN [st EXCEPT !.digits = "dot", !.frac = <<>>]
           ELSE Bad(st)
  ELSE IF c = "Infinity" /\ st.digits = "none"
    THEN Emit([st EXCEPT !.mode = "val"], <<"float", "-inf">>)
  ELSE IF EndNumber(st).bad THEN Bad(st)
  ELSE ValStep(EndNumber(st), c)

DecoderStep(st, c) ==
  IF st.bad THEN st
  ELSE IF st.mode = "str" THEN StrStep(st, c)
  ELSE IF st.mode = "num" THEN NumStep(st, c)
  ELSE ValStep(st, c)

\* DecoderStep over the characters lo..hi in order
RECURSIVE DecodeRange(_, _, _, _)
DecodeRange(st, s, lo, hi) ==
  IF lo > hi \/ st.bad THEN st
  ELSE IF lo = hi THEN DecoderStep(st, s[lo])
  ELSE Then(DecodeRange(st, s, lo, (lo + hi) \div 2),
            LAMBDA left : DecodeRange(left, s, (lo + hi) \div 2 + 1, hi))

\* json.loads(s): ok = FALSE stands for JSONDecodeError
json_loads(s) ==
  LET run == DecodeRange(DecoderInit, s, 1, Len(s))
      st == IF ~run.bad /\ run.mode = "num" THEN EndNumber(run) ELSE run
  IN IF ~st.bad /\ st.mode = "val" /\ st.stack = <<>> /\ st.top # NoValue
       THEN [ok |-> TRUE, val |-> st.top]
       ELSE [ok |-> FALSE, val |-> NoValue]

\* int(): the digits of a string, n their value, pos the first position
\* that is not a digit
RECURSIVE ScanDigits(_, _, _)
ScanDigits(s, i, n) ==
  IF i <= Len(s) /\ s[i] \in Digits
    THEN ScanDigits(s, i + 1, 10 * n + DigitVal(s[i]))
    ELSE [n |-> n, pos |-> i]

(***************************************************************************)
(* String helpers of the extraction routine                                *)
(***************************************************************************)
\* str.strip(): from the first to the last character that is not whitespace
Strip(s) ==
  LET keep == {i \in 1..Len(s) : s[i] \notin Whitespace}
  IN IF keep = {} THEN <<>>
     ELSE SubSeq(s, CHOOSE i \in keep : \A j \in keep : i <= j,
                    CHOOSE i \in keep : \A j \in keep : j <= i)

IsNotFenceJson(c) == c # FENCEJSON

IsNotFence(c) == c # FENCE

\* text.replace(FENCEJSON, '').replace(FENCE, '').strip()   (line 93)
RemoveMarkdown(text) ==
  Strip(SelectSeq(SelectSeq(text, IsNotFenceJson), IsNotFence))

\* FindStart looking for an opening brace only
FindStartBraceOnly(text) ==
  IF \E i \in 1..Len(text) : text[i] = "{"
    THEN CHOOSE i \in 1..Len(text) :
           /\ text[i] = "{"
           /\ \A j \in 1..(i - 1) : text[j] # "{"
    ELSE 0

\* lines 96-100: index of the first "{" or "[" (0 stands for -1)
FindStart(text) ==
  IF \E i \in 1..Len(text) : text[i] \in {"{", "["}
    THEN CHOOSE i \in 1..Len(text) :
           /\ text[i] \in {"{", "["}
           /\ \A j \in 1..(i - 1) : text[j] \notin {"{", "["}
    ELSE 0

(***************************************************************************)
(* Results of the two routines: a string, None, or an exception that       *)
(* leaves the routine.                                                     *)
(***************************************************************************)
NoneResult == [kind |-> "None", str |-> <<>>]

StrResult(s) == [kind |-> "str", str |-> s]

RaiseResult == [kind |-> "raise", str |-> <<>>]

\* one turn of the loop of lines 165-184; last_complete is the index of the
\* last "}" that brought the depth of braces back to zero (0 stands for -1,
\* so the index k of the code is k + 1 here)
FixStep(st, s, i) ==
  IF st.escape_next THEN [st EXCEPT !.escape_next = FALSE]
  ELSE IF s[i] = BSLASH THEN [st EXCEPT !.escape_next = TRUE]
  ELSE IF s[i] = QUOTE THEN [st EXCEPT !.in_string = ~@]
  ELSE IF ~st.in_string /\ s[i] = "{" THEN [st EXCEPT !.bracket_count = @ + 1]
  ELSE IF ~st.in_string /\ s[i] = "}"
    THEN [st EXCEPT !.bracket_count = @ - 1,
                    !.last_complete = IF st.bracket_count - 1 = 0 THEN i ELSE @]
  ELSE st

\* FixStep over the characters lo..hi in order
RECURSIVE FixRange(_, _, _, _)
FixRange(st, s, lo, hi) ==
  IF lo > hi THEN st
  ELSE IF lo = hi THEN FixStep(st, s, lo)
  ELSE Then(FixRange(st, s, lo, (lo + hi) \div 2),
            LAMBDA left : FixRange(left, s, (lo + hi) \div 2 + 1, hi))

LastComplete(s, i, bracket_count, in_string, escape_next, last_complete) ==
  FixRange([bracket_count |-> bracket_count, in_string |-> in_string,
            escape_next |-> escape_next, last_complete |-> last_complete],
           s, i, Len(s)).last_complete

\* fix_truncated_json cutting one character short of the last complete object
fix_truncated_json_short(json_str0) ==
  LET json_str == Strip(json_str0)
  IN IF json_str # <<>> /\ Head(json_str) = "["
       THEN LET last_complete == LastComplete(json_str, 1, 0, FALSE, FALSE, 0)
                fixed == Append(SubSeq(json_str, 1, last_complete - 1), "]")
            IN IF last_complete > 1 /\ json_loads(fixed).ok
                 THEN StrResult(fixed)
                 ELSE NoneResult
       ELSE NoneResult

\* fix_truncated_json (lines 151-197)
fix_truncated_json(json_str0) ==
  LET json_str == Strip(json_str0)
  IN IF json_str # <<>> /\ Head(json_str) = "["
       THEN LET last_complete == LastComplete(json_str, 1, 0, FALSE, FALSE, 0)
                fixed == Append(SubSeq(json_str, 1, last_complete), "]")
            IN IF last_complete > 1 /\ json_loads(fixed).ok
                 THEN StrResult(fixed)
                 ELSE NoneResult
       ELSE NoneResult

\* MatchStep counting the brackets inside strings as well
MatchStepInStrings(st, text, i, open_char, close_char) ==
  IF st.end # 0 THEN st
  ELSE IF text[i] = open_char THEN [st EXCEPT !.bracket_count = @ + 1]
  ELSE IF text[i] = close_char
    THEN [st EXCEPT !.bracket_count = @ - 1,
                    !.end = IF st.bracket_count - 1 = 0 THEN i ELSE 0]
  ELSE st

\* one turn of the loop of lines 112-136; end is the index at which the loop
\* left through line 133 (the depth of open_char/close_char first returned to
\* zero), 0 while it has not
MatchStep(st, text, i, open_char, close_char) ==
  IF st.end # 0 THEN st
  ELSE IF st.escape_next THEN [st EXCEPT !.escape_next = FALSE]
  ELSE IF text[i] = BSLASH THEN [st EXCEPT !.escape_next = TRUE]
  ELSE IF text[i] = QUOTE THEN [st EXCEPT !.in_string = ~@]
  ELSE IF ~st.in_string /\ text[i] = open_char THEN [st EXCEPT !.bracket_count = @ + 1]
  ELSE IF ~st.in_string /\ text[i] = close_char
    THEN [st EXCEPT !.bracket_count = @ - 1,
                    !.end = IF st.bracket_count - 1 = 0 THEN i ELSE 0]
  ELSE st

\* MatchStep over the characters lo..hi in order
RECURSIVE MatchRange(_, _, _, _, _, _)
MatchRange(st, text, lo, hi, open_char, close_char) ==
  IF lo > hi \/ st.end # 0 THEN st
  ELSE IF lo = hi THEN MatchStep(st, text, lo, open_char, close_char)
  ELSE Then(MatchRange(st, text, lo, (lo + hi) \div 2, open_char, close_char),
            LAMBDA left : MatchRange(left, text, (lo + hi) \div 2 + 1, hi, open_char, close_char))

MatchEnd(text, i, bracket_count, in_string, escape_next, open_char, close_char) ==
  MatchRange([bracket_count |-> bracket_count, in_string |-> in_string,
              escape_next |-> escape_next, end |-> 0],
             text, i, Len(text), open_char, close_char).end

\* the scan of lines 106-136 on a cleaned text that has a start index
ScanEnd(text) ==
  LET start_idx == FindStart(text)
      open_char == text[start_idx]
      close_char == IF open_char = "{" THEN "}" ELSE "]"
  IN MatchEnd(text, start_idx, 0, FALSE, FALSE, open_char, close_char)

\* the body of the try block of extract_json_from_response (lines 88-145)
\* the body returning its candidates without parsing them first
ExtractBodyUnvalidated(text0) ==
  IF text0 = <<>> THEN NoneResult
  ELSE LET text == RemoveMarkdown(text0)
           start_idx == FindStart(text)
       IN IF start_idx = 0 THEN NoneResult
          ELSE LET end == ScanEnd(text)
               IN IF end > 0
                    THEN StrResult(SubSeq(text, start_idx, end))
                    ELSE StrResult(SubSeq(text, start_idx, Len(text)))

\* the body of extract_json_from_response (lines 88-145)
ExtractBody(text0) ==
  IF text0 = <<>> THEN NoneResult
  ELSE LET text == RemoveMarkdown(text0)
           start_idx == FindStart(text)
       IN IF start_idx = 0 THEN NoneResult
          ELSE LET end == ScanEnd(text)
                   rest == SubSeq(text, start_idx, Len(text))
               IN IF end > 0
                    THEN IF json_loads(SubSeq(text, start_idx, end)).ok
                           THEN StrResult(SubSeq(text, start_idx, end))
                           ELSE RaiseResult
                    ELSE IF json_loads(rest).ok
                           THEN StrResult(rest)
                           ELSE fix_truncated_json(rest)

\* extract_json_from_response without its except clause
extract_json_unguarded(text) == ExtractBody(text)

\* extract_json_from_response (lines 85-149): the except clause of lines
\* 147-149 turns every exception of the body into None
extract_json_from_response(text) ==
  LET r == ExtractBody(text)
  IN IF r.kind = "raise" THEN NoneResult ELSE r

(***************************************************************************)
(* Python values as the handlers see them                                  *)
(***************************************************************************)
None == <<"None">>

Str(chars) == <<"str", chars>>

Num(n) == <<"num", n>>

Arr(elems) == <<"arr", elems>>

Obj(pairs) == <<"obj", pairs>>

IsDict(v) == v[1] = "obj"

IsList(v) == v[1] = "arr"

IsStr(v) == v[1] = "str"

\* key in d
HasKey(d, k) == \E i \in 1..Len(d[2]) : d[2][i][1] = k

\* d.get(k): None when the key is absent
Get(d, k) ==
  IF HasKey(d, k)
    THEN d[2][CHOOSE i \in 1..Len(d[2]) : d[2][i][1] = k][2]
    ELSE None

\* d[k] = v
SetKey(d, k, v) == Obj(DictSet(d[2], k, v))

\* `not v`
Falsy(v) ==
  v \in {None, Arr(<<>>), Obj(<<>>), Str(<<>>), Num(0), <<"null">>, <<"false">>}

\* hash(v) raises TypeError for lists and dicts
Unhashable(v) == v[1] \in {"arr", "obj"}

\* jsonify({'error': message}), status
ErrorResponse(status, message) ==
  [status |-> status, body |-> Obj(<< <<<<"error">>, Str(<<message>>)>> >>)]

NoResponse == [status |-> 0, body |-> None]

(***************************************************************************)
(* call_gpt_model (lines 199-236).  An upstream outcome is what            *)
(* client.chat.completions.create does for one call: it raises, or it      *)
(* returns a completion whose message content is None or a text.           *)
(***************************************************************************)
UpstreamRaises == [kind |-> "raise", content |-> <<>>]

UpstreamNoContent == [kind |-> "nocontent", content |-> <<>>]

UpstreamText(t) == [kind |-> "content", content |-> t]

\* RuntimeError("OpenAI client not configured. Check HF_TOKEN.") (line 202)
ConfigurationError ==
  [kind |-> "raise", str |-> <<"OpenAI client not configured. Check HF_TOKEN.">>]

\* call_gpt_model going on to the service without the check of line 201
call_gpt_model_unguarded(has_client, outcome) ==
  IF outcome.kind = "raise" THEN RaiseResult
  ELSE IF outcome.kind = "nocontent" \/ outcome.content = <<>> THEN StrResult(<<>>)
  ELSE StrResult(outcome.content)

call_gpt_model(has_client, outcome) ==
  IF ~has_client THEN ConfigurationError
  ELSE IF outcome.kind = "raise" THEN RaiseResult
  ELSE IF outcome.kind = "nocontent" \/ outcome.content = <<>> THEN StrResult(<<>>)
  ELSE StrResult(outcome.content)

(***************************************************************************)
(* One rung of the ladder of generate_questions (lines 358-397) and of     *)
(* evaluate (lines 481-521): what became of the rung, and the parsed value *)
(***************************************************************************)
RungResult(class, value) == [class |-> class, value |-> value]

\* lines 390-393 and 514-517: the text fix_truncated_json made was parsed
ParseAlternative(parsed) ==
  IF parsed.ok THEN RungResult("parsed_alternative", parsed.val)
  ELSE RungResult("alternative_failed", None)

\* lines 387-396 and 511-519: `if alternative_json:`
TryAlternative(alternative_json) ==
  IF alternative_json.kind = "None" \/ alternative_json.str = <<>>
    THEN RungResult("no_alternative", None)
    ELSE ParseAlternative(json_loads(alternative_json.str))

\* lines 380-396 and 504-519: json.loads(json_text) returned or raised
ParseExtracted(parsed, json_text) ==
  IF parsed.ok THEN RungResult("parsed", parsed.val)
  ELSE TryAlternative(fix_truncated_json(json_text))

\* lines 373-396 and 495-519: `if not json_text:`
TryExtracted(json_text) ==
  IF json_text.kind = "None" \/ json_text.str = <<>>
    THEN RungResult("no_json", None)
    ELSE ParseExtracted(json_loads(json_text.str), json_text.str)

\* lines 372-396 and 494-519: extraction and parsing of a response text
ParseRung(response_text) == TryExtracted(extract_json_from_response(response_text))

GenerateRung(has_client, outcome) ==
  LET response_text == call_gpt_model(has_client, outcome)
  IN IF response_text.kind = "raise" THEN RungResult("raised", None)
     ELSE ParseRung(response_text.str)

EvaluateRung(has_client, outcome) ==
  LET response_text == call_gpt_model(has_client, outcome)
  IN IF response_text.kind = "raise" THEN RungResult("raised", None)
     ELSE IF response_text.str = <<>> \/ Strip(response_text.str) = <<>>
       THEN RungResult("empty", None)
     ELSE ParseRung(response_text.str)

\* a loop whose rungs never break
BreaksNever(class) == FALSE

\* the rungs that `break` out of the loop
Breaks(class) == class \in {"parsed", "parsed_alternative"}

max_tokens_options_generate == <<2500, 3000, 2000, 1800>>

max_tokens_options_evaluate == <<600, 800, 400, 1000>>

(***************************************************************************)
(* generate_questions after the loop (lines 399-430)                       *)
(***************************************************************************)
MinQuestions == 6

expected_types ==
  {"Aptitude", "CodeCompletion", "TrickyCoding", "TechCodeCompletion", "Technical", "HR"}

\* line 411: building the set hashes q.get('type') of every dict q
FoundTypesRaises(questions) ==
  \E i \in 1..Len(questions[2]) :
    IsDict(questions[2][i]) /\ Unhashable(Get(questions[2][i], <<"type">>))

\* MissingFields looking for the question key only
MissingQuestionOnly(q) == ~IsDict(q) \/ ~HasKey(q, <<"question">>)

\* lines 417-419
MissingFields(q) ==
  ~IsDict(q) \/ ~HasKey(q, <<"question">>) \/ ~HasKey(q, <<"type">>)

GenerateRespond(questions) ==
  IF Falsy(questions)
    THEN ErrorResponse(500, "Failed to generate questions: Failed to generate valid questions after multiple attempts")
  ELSE IF ~IsList(questions)
    THEN ErrorResponse(500, "Failed to generate questions: Response must be a JSON array")
  ELSE IF Len(questions[2]) < MinQuestions
    THEN ErrorResponse(500, "Failed to generate questions: Expected 6 questions")
  ELSE IF FoundTypesRaises(questions)
    THEN ErrorResponse(500, "Failed to generate questions: unhashable type")
  ELSE IF \E i \in 1..Len(questions[2]) : MissingFields(questions[2][i])
    THEN ErrorResponse(500, "Failed to generate questions: Question missing required fields")
  ELSE [status |-> 200, body |-> Obj(<< <<<<"questions">>, questions>> >>)]

(***************************************************************************)
(* evaluate after the loop (lines 523-568)                                 *)
(***************************************************************************)
RECURSIVE JoinRange(_, _, _, _)
JoinRange(words, sep, lo, hi) ==
  IF lo > hi THEN <<>>
  ELSE IF lo = hi THEN words[lo]
  ELSE JoinRange(words, sep, lo, (lo + hi) \div 2) \o <<sep>>
       \o JoinRange(words, sep, (lo + hi) \div 2 + 1, hi)

\* sep.join(words)
Join(words, sep) == JoinRange(words, sep, 1, Len(words))

\* str.split(), one character: whitespace ends the word being read
SplitStep(st, c) ==
  IF c \in Whitespace
    THEN IF st.word = <<>> THEN st
         ELSE [words |-> Append(st.words, st.word), word |-> <<>>]
    ELSE [st EXCEPT !.word = Append(@, c)]

\* SplitStep over the characters lo..hi in order
RECURSIVE SplitRange(_, _, _, _)
SplitRange(st, chars, lo, hi) ==
  IF lo > hi THEN st
  ELSE IF lo = hi THEN SplitStep(st, chars[lo])
  ELSE Then(SplitRange(st, chars, lo, (lo + hi) \div 2),
            LAMBDA left : SplitRange(left, chars, (lo + hi) \div 2 + 1, hi))

\* str.split(): the maximal runs of characters that are not whitespace
Split(chars) ==
  LET st == SplitRange([words |-> <<>>, word |-> <<>>], chars, 1, Len(chars))
  IN IF st.word = <<>> THEN st.words ELSE Append(st.words, st.word)

\* a text of the words given, one space between them
Sentence(words) == Join([i \in 1..Len(words) |-> <<words[i]>>], SPACE)

\* int(str): optional sign and digits, surrounding whitespace ignored
IntOfStr(chars) ==
  LET t == Strip(chars)
      neg == t # <<>> /\ Head(t) = "-"
      digits == IF neg THEN Tail(t) ELSE t
      d == ScanDigits(digits, 1, 0)
  IN IF digits # <<>> /\ d.pos > Len(digits)
       THEN [ok |-> TRUE, n |-> IF neg THEN 0 - d.n ELSE d.n]
       ELSE [ok |-> FALSE, n |-> 0]

\* a float that is an infinity: int() of it raises OverflowError
IsInfinite(v) == v[1] = "float" /\ Len(v) = 2 /\ v[2] \in {"inf", "-inf"}

\* int(v): ok = FALSE stands for ValueError or TypeError; a finite float is
\* truncated toward zero, and int(nan) raises ValueError
IntOf(v) ==
  IF v[1] = "num" THEN [ok |-> TRUE, n |-> v[2]]
  ELSE IF v[1] = "float"
    THEN IF Len(v) = 2 THEN [ok |-> FALSE, n |-> 0]
         ELSE [ok |-> TRUE, n |-> IF v[2] THEN 0 - v[3] ELSE v[3]]
  ELSE IF v[1] = "true" THEN [ok |-> TRUE, n |-> 1]
  ELSE IF v[1] = "false" THEN [ok |-> TRUE, n |-> 0]
  ELSE IF v[1] = "str" THEN IntOfStr(v[2])
  ELSE [ok |-> FALSE, n |-> 0]

Min(a, b) == IF a < b THEN a ELSE b

Max(a, b) == IF a > b THEN a ELSE b

DefaultScore == 5

MinScore == 0

MaxScore == 10

MaxFeedbackWords == 100

\* lines 526-529
FallbackEvaluation ==
  Obj(<< <<<<"feedback">>,
           Str(Sentence(<<"Unable", "to", "generate", "detailed", "feedback", "due",
                          "to", "technical", "issues.", "Please", "review", "the",
                          "response", "manually.">>))>>,
         <<<<"score">>, Num(DefaultScore)>> >>)

\* lines 564-567
TechnicalErrorEvaluation ==
  Obj(<< <<<<"feedback">>,
           Str(Sentence(<<"Technical", "error", "occurred", "during", "evaluation.",
                          "Please", "try", "again", "or", "review", "manually.">>))>>,
         <<<<"score">>, Num(DefaultScore)>> >>)

\* line 533
InvalidFormatEvaluation ==
  Obj(<< <<<<"feedback">>, Str(Sentence(<<"Invalid", "evaluation", "format">>))>>,
         <<<<"score">>, Num(DefaultScore)>> >>)

\* lines 542-546
FixScore(e) ==
  LET score == IntOf(Get(e, <<"score">>))
  IN IF score.ok
       THEN SetKey(e, <<"score">>, Num(Max(MinScore, Min(MaxScore, score.n))))
       ELSE SetKey(e, <<"score">>, Num(DefaultScore))

\* lines 549-554
FixFeedback(e) ==
  LET feedback == Get(e, <<"feedback">>)
      words == Split(feedback[2])
  IN IF ~IsStr(feedback)
       THEN SetKey(e, <<"feedback">>,
                   Str(Sentence(<<"Feedback", "format", "error", "-", "please",
                                  "try", "again.">>)))
     ELSE IF Len(words) > MaxFeedbackWords
       THEN SetKey(e, <<"feedback">>,
                   Str(Append(Join(SubSeq(words, 1, MaxFeedbackWords), SPACE), "...")))
     ELSE e

\* evaluate answering with an error when no rung produced a value
EvaluateRespondNoFallback(evaluation) ==
  IF Falsy(evaluation)
    THEN ErrorResponse(500, "Evaluation failed")
    ELSE LET e2 == IF ~IsDict(evaluation) THEN InvalidFormatEvaluation ELSE evaluation
             e3 == IF ~HasKey(e2, <<"feedback">>)
                     THEN SetKey(e2, <<"feedback">>, Str(<<"Feedback">>))
                     ELSE e2
             e4 == IF ~HasKey(e3, <<"score">>)
                     THEN SetKey(e3, <<"score">>, Num(DefaultScore)) ELSE e3
         IN IF IsInfinite(Get(e4, <<"score">>))
              THEN [status |-> 200, body |-> TechnicalErrorEvaluation]
              ELSE [status |-> 200, body |-> FixFeedback(FixScore(e4))]

\* lines 523-557
EvaluateRespond(evaluation) ==
  LET e1 == IF Falsy(evaluation) THEN FallbackEvaluation ELSE evaluation
      e2 == IF ~IsDict(e1) THEN InvalidFormatEvaluation ELSE e1
      e3 == IF ~HasKey(e2, <<"feedback">>)
              THEN SetKey(e2, <<"feedback">>,
                          Str(Sentence(<<"Feedback", "not", "available", "due", "to",
                                         "technical", "issues.">>)))
              ELSE e2
      e4 == IF ~HasKey(e3, <<"score">>) THEN SetKey(e3, <<"score">>, Num(DefaultScore)) ELSE e3
  IN IF IsInfinite(Get(e4, <<"score">>))
       THEN \* OverflowError is not caught at line 545: the handler's last
            \* except answers (lines 559-568)
            [status |-> 200, body |-> TechnicalErrorEvaluation]
       ELSE [status |-> 200, body |-> FixFeedback(FixScore(e4))]

(***************************************************************************)
(* json.dumps with its default separators, used to write the texts the     *)
(* upstream model may return                                               *)
(***************************************************************************)
DigitTok(n) == CHOOSE d \in Digits : DigitVal(d) = n

RECURSIVE EncodeNat(_)
EncodeNat(n) ==
  IF n < 10 THEN <<DigitTok(n)>> ELSE EncodeNat(n \div 10) \o <<DigitTok(n % 10)>>

RECURSIVE EncodeRange(_, _, _)
EncodeRange(chars, lo, hi) ==
  IF lo > hi THEN <<>>
  ELSE IF lo = hi
    THEN IF chars[lo] \in {QUOTE, BSLASH} THEN <<BSLASH, chars[lo]>> ELSE <<chars[lo]>>
  ELSE EncodeRange(chars, lo, (lo + hi) \div 2) \o EncodeRange(chars, (lo + hi) \div 2 + 1, hi)

EncodeChars(chars) == EncodeRange(chars, 1, Len(chars))

EncodeStr(chars) == <<QUOTE>> \o EncodeChars(chars) \o <<QUOTE>>

RECURSIVE Encode(_)
RECURSIVE EncodeElems(_)
RECURSIVE EncodeMembers(_)

EncodeElems(elems) ==
  IF elems = <<>> THEN <<>>
  ELSE IF Len(elems) = 1 THEN Encode(Head(elems))
  ELSE Encode(Head(elems)) \o <<",", SPACE>> \o EncodeElems(Tail(elems))

EncodeMembers(pairs) ==
  IF pairs = <<>> THEN <<>>
  ELSE LET m == EncodeStr(Head(pairs)[1]) \o <<":", SPACE>> \o Encode(Head(pairs)[2])
       IN IF Len(pairs) = 1 THEN m ELSE m \o <<",", SPACE>> \o EncodeMembers(Tail(pairs))

Encode(v) ==
  IF v[1] = "str" THEN EncodeStr(v[2])
  ELSE IF v[1] = "num"
    THEN IF v[2] < 0 THEN <<"-">> \o EncodeNat(0 - v[2]) ELSE EncodeNat(v[2])
  ELSE IF v[1] = "float"
    THEN IF Len(v) = 2
           THEN IF v[2] = "nan" THEN <<"NaN">>
                ELSE IF v[2] = "inf" THEN <<"Infinity">> ELSE <<"-", "Infinity">>
           ELSE (IF v[2] THEN <<"-">> ELSE <<>>) \o EncodeNat(v[3]) \o <<".">> \o v[4]
  ELSE IF v[1] = "arr" THEN <<"[">> \o EncodeElems(v[2]) \o <<"]">>
  ELSE IF v[1] = "obj" THEN <<"{">> \o EncodeMembers(v[2]) \o <<"}">>
  ELSE <<v[1]>>

\* the text wrapped in markdown code-fence markers
FenceWrap(t) == <<FENCEJSON, NEWLINE>> \o t \o <<NEWLINE, FENCE>>

(***************************************************************************)
(* What the upstream model may answer.  The handlers put no constraint on  *)
(* it, so the texts cover well-formed answers, answers of the wrong shape, *)
(* answers cut off by the token limit and answers that hold no JSON.       *)
(***************************************************************************)
TypeOrder ==
  <<"Aptitude", "CodeCompletion", "TrickyCoding", "TechCodeCompletion", "Technical", "HR">>

Question(type, question) ==
  Obj(<< <<<<"type">>, Str(<<type>>)>>, <<<<"question">>, Str(<<question>>)>> >>)

OnlyType(type) == Obj(<< <<<<"type">>, Str(<<type>>)>> >>)

OnlyQuestion(question) == Obj(<< <<<<"question">>, Str(<<question>>)>> >>)

\* the answer the prompt asks for (lines 55-62)
SixQuestions == Arr([i \in 1..6 |-> Question(TypeOrder[i], "q")])

\* the answer with its k-th element replaced
SixWith(k, q) == Arr([i \in 1..6 |-> IF i = k THEN q ELSE Question(TypeOrder[i], "q")])

SevenQuestions == Arr(Append(SixQuestions[2], Question("Bonus", "q")))

FiveQuestions == Arr(SubSeq(SixQuestions[2], 1, 5))

SixSameType == Arr([i \in 1..6 |-> Question("Aptitude", "q")])

ListTypedQuestion ==
  Obj(<< <<<<"type">>, Arr(<<Str(<<"Technical">>)>>)>>, <<<<"question">>, Str(<<"q">>)>> >>)

GeneratedValues ==
  {SixQuestions, SevenQuestions, FiveQuestions, SixSameType,
   SixWith(4, ListTypedQuestion), SixWith(2, Num(1)), SixWith(5, OnlyQuestion("q")),
   Question("Aptitude", "q"), Arr(<<>>), Obj(<<>>)}
  \cup {SixWith(k, OnlyType(TypeOrder[k])) : k \in 1..6}

\* a float with a fraction, and the floats that have none
Float(neg, whole, frac) == <<"float", neg, whole, frac>>

Infinity == <<"float", "inf">>

NegInfinity == <<"float", "-inf">>

NaN == <<"float", "nan">>

Evaluation(feedback, score) ==
  Obj(<< <<<<"feedback">>, feedback>>, <<<<"score">>, score>> >>)

GoodFeedback == Str(Sentence(<<"clear", "and", "correct">>))

LongFeedback == Str(Sentence([i \in 1..(MaxFeedbackWords + 1) |-> "w"]))

EvaluationValues ==
  {Evaluation(GoodFeedback, sc) :
     sc \in {Num(7), Num(0), Num(10), Num(37), Num(0 - 4), Str(<<"seven">>),
             Str(<<"7">>), <<"null">>, <<"true">>, <<"false">>, Arr(<<Num(7)>>),
             Float(FALSE, 7, <<"5">>), Float(FALSE, 37, <<"5">>),
             Float(TRUE, 0, <<"5">>), Infinity, NegInfinity, NaN}}
  \cup {Evaluation(LongFeedback, Num(7)), Evaluation(Str(<<>>), Num(7)),
        Evaluation(Num(1), Num(7)),
        Obj(<< <<<<"feedback">>, GoodFeedback>> >>),
        Obj(<< <<<<"score">>, Num(7)>> >>),
        Arr(<<Evaluation(GoodFeedback, Num(7))>>)}

\* a text cut off n tokens before its end
CutOff(t, n) == SubSeq(t, 1, Len(t) - n)

UpstreamTexts ==
  {Encode(v) : v \in GeneratedValues \cup EvaluationValues}
  \cup {FenceWrap(Encode(SixQuestions)),
        <<"Here", SPACE, "you", SPACE, "go:", NEWLINE>> \o Encode(Evaluation(GoodFeedback, Num(7))),
        CutOff(Encode(SixQuestions), 3), CutOff(Encode(SevenQuestions), 3),
        CutOff(Encode(Evaluation(GoodFeedback, Num(7))), 2),
        <<"Sorry">>, <<SPACE>>, <<NEWLINE, SPACE>>, <<"{", "a", "}">>,
        <<"[", "{", QUOTE, "type">>, <<"[", QUOTE, BSLASH, "a", QUOTE, "]">>}

UpstreamOutcomes ==
  {UpstreamRaises, UpstreamNoContent} \cup {UpstreamText(t) : t \in UpstreamTexts}

(***************************************************************************)
(* Request bodies.  A field of the body is absent, is not a string, or is  *)
(* a string of `lead` spaces followed by `core` other characters.          *)
(***************************************************************************)
Absent == [kind |-> "absent", lead |-> 0, core |-> 0]

NonStr == [kind |-> "nonstr", lead |-> 0, core |-> 0]

StrField(lead, core) == [kind |-> "str", lead |-> lead, core |-> core]

max_question_length == 1000

max_answer_length == 2000

\* absent, not a string, "", " ", "x", " x"
RoleFields == {Absent, NonStr} \cup {StrField(l, c) : l \in 0..1, c \in 0..1}

\* absent, not a string, "", " ", "x", and a string longer than the limit
TextFields(limit) ==
  {Absent, NonStr, StrField(0, 0), StrField(1, 0), StrField(0, 1), StrField(0, limit + 1)}

\* request.get_json() is None or empty
NoData == [falsy |-> TRUE, role |-> Absent, question |-> Absent, answer |-> Absent]

GenerateBodies ==
  {NoData} \cup {[falsy |-> FALSE, role |-> r, question |-> Absent, answer |-> Absent] :
                   r \in RoleFields}

EvaluateBodies ==
  {NoData} \cup {[falsy |-> FALSE, role |-> Absent, question |-> q, answer |-> a] :
                   q \in TextFields(max_question_length),
                   a \in TextFields(max_answer_length)}

\* the length of the field without the strip()
UnstrippedLen(field) == field.lead + field.core

\* len(data.get(field, '').strip())
StrippedLen(field) == field.core

\* lines 453-459: the length after truncation and the appended "..."
Truncated(len, limit) == IF len > limit THEN limit + 3 ELSE len

(***************************************************************************)
(* State                                                                   *)
(***************************************************************************)
(***************************************************************************)
(* The routes that make no model call (lines 238-286)                      *)
(***************************************************************************)
MODEL == "openai/gpt-oss-120b:cerebras"

Bool(b) == IF b THEN <<"true">> ELSE <<"false">>

PageRoutes == {"index", "interview", "results"}

\* the file each page route renders
TemplateOf(route) ==
  IF route = "index" THEN "index.html"
  ELSE IF route = "interview" THEN "interview.html"
  ELSE "results.html"

\* the body of index, interview and results: the rendered template, or 500
\* with the error of the except branch
render_page(route, found) ==
  IF found
    THEN [status |-> 200, body |-> Str(<<TemplateOf(route)>>)]
    ELSE [status |-> 500,
          body |-> Obj(<< <<<<"error">>, Str(Sentence(<<"Template", "not", "found">>))>>,
                          <<<<"message">>,
                            Str(Sentence(<<"Please", "ensure">>)
                                \o <<SPACE, "templates/", TemplateOf(route), SPACE, "exists">>)>>,
                          <<<<"details">>, Str(<<TemplateOf(route)>>)>> >>)]

health(has_token, has_client) ==
  [status |-> 200,
   body |-> Obj(<< <<<<"status">>, Str(<<"healthy">>)>>,
                   <<<<"model">>, Str(<<MODEL>>)>>,
                   <<<<"hf_token_configured">>, Bool(has_token)>>,
                   <<<<"openai_client_ready">>, Bool(has_client)>>,
                   <<<<"service">>, Str(<<"professional-interview-generator">>)>> >>)]

VARIABLES
  hf_token,    \* whether HF_TOKEN is set to a text that is not empty (line 18)
  client,      \* whether the module-level client was created (lines 25-44)
  pc,          \* "idle", "calling" (a model call is in flight), "done"
  handler,     \* the route of the current request
  request,     \* request.get_json()
  prompt,      \* lengths of the user input formatted into the prompt
  calls,       \* max_tokens of the model calls issued during the request
  sent,        \* how many times the operation invoked the upstream service
  outcomes,    \* what became of each rung that has returned
  questions,   \* local of generate_questions (line 355)
  evaluation,  \* local of evaluate (line 478)
  response,    \* the response returned to the caller
  text,        \* argument of extract_json_from_response
  origin,      \* how the argument was produced
  result       \* what the function called by itself returned

vars ==
  <<hf_token, client, pc, handler, request, prompt, calls, sent, outcomes, questions,
    evaluation, response, text, origin, result>>

handlerVars ==
  <<hf_token, client, pc, handler, request, prompt, calls, sent, outcomes, questions,
    evaluation, response>>

\* the module-level configuration, read and never written by the handlers
configVars == <<hf_token, client>>

parserVars == <<text, origin, result>>

Pending == [kind |-> "pending", str |-> <<>>]

NoOrigin == [kind |-> "none", value |-> None, cut |-> 0]

NoPrompt == [role |-> 0, question |-> 0, answer |-> 0]

\* the client is created only when the token is set, and is None as well
\* when importing or constructing it failed (lines 25-44)
Init ==
  /\ hf_token \in BOOLEAN
  /\ client \in (IF hf_token THEN BOOLEAN ELSE {FALSE})
  /\ sent = 0
  /\ pc = "idle"
  /\ handler = "none"
  /\ request = NoData
  /\ prompt = NoPrompt
  /\ calls = <<>>
  /\ outcomes = <<>>
  /\ questions = None
  /\ evaluation = None
  /\ response = NoResponse
  /\ text = <<>>
  /\ origin = NoOrigin
  /\ result = Pending

\* the handler returns before the loop: nothing is sent upstream
RespondEarly(r) ==
  /\ pc' = "done"
  /\ response' = r
  /\ prompt' = NoPrompt
  /\ calls' = <<>>
  /\ sent' = 0

\* generate_questions from its entry to its first model call (lines 325-360)
GenerateQuestionsRequest(data) ==
  /\ pc = "idle"
  /\ handler' = "generate_questions"
  /\ request' = data
  /\ outcomes' = <<>>
  /\ questions' = None
  /\ evaluation' = None
  /\ IF ~client
       THEN RespondEarly(ErrorResponse(500, "AI service unavailable. Please check configuration."))
     ELSE IF data.falsy
       THEN RespondEarly(ErrorResponse(400, "No data received"))
     ELSE IF data.role.kind = "nonstr"
       THEN RespondEarly(ErrorResponse(500, "Failed to generate questions: no attribute strip"))
     ELSE IF StrippedLen(data.role) = 0
       THEN RespondEarly(ErrorResponse(400, "Role is required"))
     ELSE /\ pc' = "calling"
          /\ response' = NoResponse
          /\ prompt' = [role |-> StrippedLen(data.role), question |-> 0, answer |-> 0]
          /\ calls' = <<max_tokens_options_generate[1]>>
          /\ sent' = 1
  /\ UNCHANGED <<configVars, parserVars>>

\* the model call in flight returns or raises, and generate_questions runs
\* to its next model call or to its response (lines 360-430)
GenerateQuestionsUpstream(outcome) ==
  /\ pc = "calling"
  /\ handler = "generate_questions"
  /\ \E rung \in {GenerateRung(client, outcome)} :
        /\ outcomes' = Append(outcomes, rung.class)
        /\ IF ~Breaks(rung.class) /\ Len(calls) < Len(max_tokens_options_generate)
             THEN /\ calls' = Append(calls, max_tokens_options_generate[Len(calls) + 1])
                  /\ sent' = sent + 1
                  /\ UNCHANGED <<pc, questions, response>>
             ELSE /\ questions' = rung.value
                  /\ response' = GenerateRespond(rung.value)
                  /\ pc' = "done"
                  /\ UNCHANGED <<calls, sent>>
  /\ UNCHANGED <<configVars, handler, request, prompt, evaluation, parserVars>>

\* evaluate from its entry to its first model call (lines 435-483)
EvaluateRequest(data) ==
  /\ pc = "idle"
  /\ handler' = "evaluate"
  /\ request' = data
  /\ outcomes' = <<>>
  /\ questions' = None
  /\ evaluation' = None
  /\ IF ~client
       THEN RespondEarly(ErrorResponse(500, "AI service unavailable. Please check configuration."))
     ELSE IF data.falsy
       THEN RespondEarly(ErrorResponse(400, "No data received"))
     ELSE IF data.question.kind = "nonstr" \/ data.answer.kind = "nonstr"
       THEN RespondEarly([status |-> 200, body |-> TechnicalErrorEvaluation])
     ELSE IF StrippedLen(data.question) = 0 \/ StrippedLen(data.answer) = 0
       THEN RespondEarly(ErrorResponse(400, "Question and answer are required"))
     ELSE /\ pc' = "calling"
          /\ response' = NoResponse
          /\ prompt' = [role |-> 0,
                        question |-> Truncated(StrippedLen(data.question), max_question_length),
                        answer |-> Truncated(StrippedLen(data.answer), max_answer_length)]
          /\ calls' = <<max_tokens_options_evaluate[1]>>
          /\ sent' = 1
  /\ UNCHANGED <<configVars, parserVars>>

\* the model call in flight returns or raises, and evaluate runs to its next
\* model call or to its response (lines 483-557)
EvaluateUpstream(outcome) ==
  /\ pc = "calling"
  /\ handler = "evaluate"
  /\ \E rung \in {EvaluateRung(client, outcome)} :
        /\ outcomes' = Append(outcomes, rung.class)
        /\ IF ~Breaks(rung.class) /\ Len(calls) < Len(max_tokens_options_evaluate)
             THEN /\ calls' = Append(calls, max_tokens_options_evaluate[Len(calls) + 1])
                  /\ sent' = sent + 1
                  /\ UNCHANGED <<pc, evaluation, response>>
             ELSE /\ evaluation' = rung.value
                  /\ response' = EvaluateRespond(rung.value)
                  /\ pc' = "done"
                  /\ UNCHANGED <<calls, sent>>
  /\ UNCHANGED <<configVars, handler, request, prompt, questions, parserVars>>

\* the response is sent; nothing of the request outlives it
RequestEnds ==
  /\ pc = "done"
  /\ pc' = "idle"
  /\ handler' = "none"
  /\ request' = NoData
  /\ prompt' = NoPrompt
  /\ calls' = <<>>
  /\ outcomes' = <<>>
  /\ questions' = None
  /\ evaluation' = None
  /\ response' = NoResponse
  /\ sent' = 0
  /\ result' = Pending
  /\ UNCHANGED <<configVars, text, origin>>

\* a request that no handler of the ladder serves
NoLadder ==
  /\ request' = NoData
  /\ prompt' = NoPrompt
  /\ calls' = <<>>
  /\ outcomes' = <<>>
  /\ questions' = None
  /\ evaluation' = None

\* GET /, /interview or /results: the template is rendered, or
\* render_template raises because the file is not there (lines 238-275)
PageRequest(route, found) ==
  /\ pc = "idle"
  /\ pc' = "done"
  /\ handler' = route
  /\ response' = render_page(route, found)
  /\ sent' = 0
  /\ NoLadder
  /\ UNCHANGED <<configVars, parserVars>>

\* GET /health (lines 277-286)
HealthRequest ==
  /\ pc = "idle"
  /\ pc' = "done"
  /\ handler' = "health"
  /\ response' = health(hf_token, client)
  /\ sent' = 0
  /\ NoLadder
  /\ UNCHANGED <<configVars, parserVars>>

\* call_gpt_model(messages) called by itself: the service is invoked only
\* past the check of line 201
CallGptModel(outcome) ==
  /\ pc = "idle"
  /\ pc' = "done"
  /\ handler' = "call_gpt_model"
  /\ result' = call_gpt_model(client, outcome)
  /\ sent' = IF client THEN 1 ELSE 0
  /\ response' = NoResponse
  /\ NoLadder
  /\ UNCHANGED <<configVars, text, origin>>

Next ==
  \/ \E data \in GenerateBodies : GenerateQuestionsRequest(data)
  \/ \E outcome \in UpstreamOutcomes : GenerateQuestionsUpstream(outcome)
  \/ \E data \in EvaluateBodies : EvaluateRequest(data)
  \/ \E outcome \in UpstreamOutcomes : EvaluateUpstream(outcome)
  \/ \E route \in PageRoutes, found \in BOOLEAN : PageRequest(route, found)
  \/ HealthRequest
  \/ \E outcome \in UpstreamOutcomes : CallGptModel(outcome)
  \/ RequestEnds

Spec == Init /\ [][Next]_vars

(***************************************************************************)
(* extract_json_from_response on its own: the texts it is applied to       *)
(***************************************************************************)
MaxLen == 4

MaxStr == 1

MaxElems == 2

MaxQuoted == 3

RawAlphabet == {"{", "}", "[", "]", QUOTE, BSLASH, ",", "1", SPACE, FENCE}

\* every text of at most MaxLen characters of the alphabet
RawTexts == UNION {[1..n -> RawAlphabet] : n \in 0..MaxLen}

StrChars == {"a", QUOTE, BSLASH, "{", "]", FENCE}

Strings(chars, n) == UNION {[1..k -> chars] : k \in 0..n}

Scalars ==
  {Num(0), Num(37), Num(0 - 4), <<"null">>, <<"true">>}
  \cup {Str(c) : c \in Strings(StrChars, MaxStr)}

Keys == {<<"k">>, <<QUOTE>>, <<"{">>, <<>>}

\* the elements the arrays are made of
Elements == {Num(0), <<"null">>, Str(<<"a">>), Str(<<QUOTE, "]", FENCE>>)}

FlatValues ==
  {Arr(e) : e \in Strings(Elements, MaxElems)}
  \cup {Obj(<<>>)}
  \cup {Obj(<< <<k, v>> >>) : k \in Keys, v \in Scalars}
  \cup {Obj(<< <<<<"k">>, v>>, <<<<"j">>, Num(1)>> >>) : v \in Scalars}

NestedValues ==
  {Arr(<<f>>) : f \in FlatValues} \cup {Obj(<< <<<<"k">>, f>> >>) : f \in FlatValues}

\* the JSON values whose encodings are wrapped in fence markers
JsonValues == Scalars \cup FlatValues \cup NestedValues

NumObjects == 6

\* the objects an array that is cut off is made of
ObjectShapes ==
  {Question("Aptitude", "q"),
   Obj(<< <<<<"q">>, Str(<<"a", QUOTE, "}", "{", "]", "[", BSLASH>>)>> >>),
   Obj(<< <<<<"a">>, Obj(<< <<<<"b">>, Arr(<<Num(1)>>)>> >>)>>, <<<<"c">>, Num(1)>> >>),
   Obj(<<>>)}

\* arrays of NumObjects objects: the first, the ones between, the last but
\* one and the last are chosen freely
ObjectArrays ==
  {Arr([i \in 1..NumObjects |->
          IF i = 1 THEN a ELSE IF i < NumObjects - 1 THEN b
          ELSE IF i = NumObjects - 1 THEN c ELSE d]) :
     a \in ObjectShapes, b \in ObjectShapes, c \in ObjectShapes, d \in ObjectShapes}

AllButLast(arr) == Arr(SubSeq(arr[2], 1, Len(arr[2]) - 1))

\* the position of the opening brace of the last object of the encoding
LastObjectStart(arr) == Len(Encode(AllButLast(arr))) + 2

\* the position of the closing brace of the last object of the encoding
LastObjectEnd(arr) == Len(Encode(arr)) - 1

\* the lengths of the encoding cut off strictly inside its last object
CutsInsideLast(arr) == LastObjectStart(arr)..(LastObjectEnd(arr) - 1)

QuotedChars == {QUOTE, BSLASH, "{", "}", "[", "]", "a"}

QuotedStrings == Strings(QuotedChars, MaxQuoted) \ {<<>>}

\* objects and arrays with a string of quotes, backslashes and brackets as
\* an element, a member, a key, or deeper
QuotedValues ==
  UNION {{Arr(<<Str(c)>>), Obj(<< <<<<"k">>, Str(c)>> >>), Obj(<< <<c, Num(1)>> >>),
          Arr(<<Obj(<< <<<<"k">>, Arr(<<Str(c)>>)>> >>), Str(c)>>)} : c \in QuotedStrings}

Origin(kind, value, cut) == [kind |-> kind, value |-> value, cut |-> cut]

InitParser ==
  /\ hf_token = TRUE
  /\ client = TRUE
  /\ sent = 0
  /\ pc = "idle"
  /\ handler = "none"
  /\ request = NoData
  /\ prompt = NoPrompt
  /\ calls = <<>>
  /\ outcomes = <<>>
  /\ questions = None
  /\ evaluation = None
  /\ response = NoResponse
  /\ result = Pending
  /\ \/ /\ text \in RawTexts
        /\ origin = Origin("raw", None, 0)
     \/ \E v \in JsonValues :
          /\ text = FenceWrap(Encode(v))
          /\ origin = Origin("fenced", v, 0)
     \/ \E arr \in ObjectArrays : \E cut \in CutsInsideLast(arr) :
          /\ text = SubSeq(Encode(arr), 1, cut)
          /\ origin = Origin("truncated", arr, cut)
     \/ \E v \in QuotedValues :
          /\ text = Encode(v)
          /\ origin = Origin("quoted", v, 0)

\* a call of extract_json_from_response(text)
ExtractJson ==
  /\ result = Pending
  /\ result' = extract_json_from_response(text)
  /\ UNCHANGED <<handlerVars, text, origin>>

NextParser == ExtractJson

SpecParser == InitParser /\ [][NextParser]_vars

(***************************************************************************)
(* Properties of the handlers, checked under Spec                          *)
(***************************************************************************)
GenerateDone == pc = "done" /\ handler = "generate_questions"

EvaluateDone == pc = "done" /\ handler = "evaluate"

\* the classes of a rung after which the loop goes on to the next rung
FailedRung == {"raised", "empty", "no_json"}

\* the classes of a rung whose response parsed
ParsedRung == {"parsed", "parsed_alternative"}

Ladder ==
  IF handler = "evaluate" THEN max_tokens_options_evaluate ELSE max_tokens_options_generate

\* an array of six elements of which exactly one lacks the question key
SixOneLacksQuestion(v) ==
  /\ IsList(v)
  /\ Len(v[2]) = 6
  /\ Cardinality({i \in 1..6 : IsDict(v[2][i]) /\ ~HasKey(v[2][i], <<"question">>)}) = 1
  /\ \A i \in 1..6 : IsDict(v[2][i]) /\ HasKey(v[2][i], <<"type">>)

\* C1: in generate_questions a rung whose response parses to an array of six
\* elements, one of them without the question key, counts as failed and the
\* next rung is attempted; 500 is returned only when no rung remains.
C1_FieldGatingTriesNextRung ==
  (GenerateDone /\ SixOneLacksQuestion(questions))
    => /\ Len(calls) = Len(max_tokens_options_generate)
       /\ response.status = 500

SuccessBody(r) == r.status = 200 /\ IsDict(r.body) /\ ~HasKey(r.body, <<"error">>)

\* the score of the body is an integer from MinScore to MaxScore and its
\* feedback a text that is not empty
ScoredEvaluation(body) ==
  /\ IsDict(body)
  /\ HasKey(body, <<"score">>)
  /\ Get(body, <<"score">>)[1] = "num"
  /\ Get(body, <<"score">>)[2] \in MinScore..MaxScore
  /\ HasKey(body, <<"feedback">>)
  /\ IsStr(Get(body, <<"feedback">>))
  /\ Get(body, <<"feedback">>)[2] # <<>>

\* the question and the answer of the request are texts that are not blank
ValidEvaluateRequest ==
  /\ ~request.falsy
  /\ request.question.kind = "str" /\ request.question.core > 0
  /\ request.answer.kind = "str" /\ request.answer.core > 0

AllRungsFailed ==
  /\ Len(outcomes) = Len(Ladder)
  /\ \A i \in 1..Len(outcomes) : outcomes[i] \in FailedRung

\* C2: with the client configured and a question and an answer that are not
\* empty, evaluate answers 200 with an integer score in 0..10 and a feedback
\* that is not empty whenever each of the four rungs raised, returned empty
\* text or returned text that holds no JSON.
C2_EvaluateAlwaysResponds ==
  (EvaluateDone /\ client /\ ValidEvaluateRequest /\ AllRungsFailed)
    => /\ response.status = 200
       /\ ScoredEvaluation(response.body)

C2_Witness ==
  /\ EvaluateDone /\ client /\ ValidEvaluateRequest /\ AllRungsFailed
  /\ {outcomes[i] : i \in 1..Len(outcomes)} = FailedRung
  /\ response.status = 200
  /\ response.body = FallbackEvaluation

\* C3: the calls of a request are a prefix of the budget list of its handler
\* in order, each call returns or raises before the next is issued, a further
\* rung is attempted exactly when the previous one raised, returned empty
\* text (evaluate) or yielded no JSON, no call follows the first rung that
\* parsed, at most four calls are made, and generate_questions answers 500
\* with an error field when all four rungs are used up without a value.
C3_LadderInOrder ==
  /\ Len(calls) <= 4
  /\ calls = SubSeq(Ladder, 1, Len(calls))
  /\ pc = "calling" => Len(outcomes) = Len(calls) - 1
  /\ pc # "calling" => Len(outcomes) = Len(calls)
  /\ \A i \in 1..Len(outcomes) :
       /\ i < Len(calls) => outcomes[i] \in FailedRung
       /\ (i = Len(calls) /\ i < Len(Ladder)) => outcomes[i] \in ParsedRung
       /\ (outcomes[i] = "empty") => handler = "evaluate"
  /\ (GenerateDone /\ AllRungsFailed)
       => response.status = 500 /\ HasKey(response.body, <<"error">>)

C3_Witness ==
  /\ GenerateDone /\ AllRungsFailed
  /\ calls = max_tokens_options_generate
  /\ {outcomes[i] : i \in 1..Len(outcomes)} = {"raised", "no_json"}
  /\ response.status = 500

(***************************************************************************)
(* Properties of extract_json_from_response, checked under SpecParser      *)
(***************************************************************************)
Returned == result # Pending

\* the result is a text that decodes to the value v
DecodesTo(r, v) == r.kind = "str" /\ json_loads(r.str).ok /\ json_loads(r.str).val = v

\* C4: for an array of six objects cut off strictly inside the sixth object,
\* extract_json_from_response returns a text that parses as the array of
\* exactly the first five objects.
C4_TruncationRepair ==
  (Returned /\ origin.kind = "truncated") => DecodesTo(result, AllButLast(origin.value))

C4_Witness ==
  /\ Returned /\ origin.kind = "truncated"
  /\ origin.cut > LastObjectStart(origin.value)
  /\ DecodesTo(result, AllButLast(origin.value))
  /\ Len(json_loads(result.str).val[2]) = NumObjects - 1

\* C5 as claimed: for every JSON value v, extract_json_from_response of the
\* encoding of v wrapped in code-fence markers returns a text that decodes
\* to v.
C5_RoundTripEveryValue ==
  (Returned /\ origin.kind = "fenced") => DecodesTo(result, origin.value)

HasFenceMarker(t) == \E i \in 1..Len(t) : t[i] \in {FENCE, FENCEJSON}

\* C5 as amended: for every JSON object or array v whose encoding holds no
\* code-fence marker, extract_json_from_response of the encoding of v wrapped
\* in code-fence markers returns a text that decodes to v.
C5_RoundTripObjectsAndArrays ==
  (/\ Returned /\ origin.kind = "fenced"
   /\ origin.value[1] \in {"arr", "obj"}
   /\ ~HasFenceMarker(Encode(origin.value)))
    => DecodesTo(result, origin.value)

C5_Witness ==
  /\ Returned /\ origin.kind = "fenced"
  /\ origin.value = Arr(<<Obj(<< <<<<"k">>, Str(<<"{">>)>>, <<<<"j">>, Num(1)>> >>)>>)
  /\ text = FenceWrap(Encode(origin.value))
  /\ DecodesTo(result, origin.value)

\* C6: brackets and escaped quotes inside a JSON string do not change the
\* depth: for an object or array whose strings hold escaped quotes and
\* literal brackets the depth first returns to zero at the closing bracket of
\* the value, and the whole value is returned.
C6_StringAwareScan ==
  (Returned /\ origin.kind = "quoted")
    => /\ ScanEnd(text) = Len(text)
       /\ result = StrResult(text)
       /\ DecodesTo(result, origin.value)

C6_Witness ==
  /\ Returned /\ origin.kind = "quoted"
  /\ origin.value = Obj(<< <<<<"k">>, Str(<<QUOTE, "}", "{">>)>> >>)
  /\ ScanEnd(text) = Len(text)
  /\ result = StrResult(text)

HasNoBracket(t) == \A i \in 1..Len(t) : t[i] \notin {"{", "["}

\* the scan of lines 106-136 finds a candidate, and the candidate is no JSON
CandidateUnparsable(t0) ==
  LET t == RemoveMarkdown(t0)
  IN /\ FindStart(t) # 0
     /\ ScanEnd(t) # 0
     /\ ~json_loads(SubSeq(t, FindStart(t), ScanEnd(t))).ok

\* C7: extract_json_from_response never raises, and returns None for the
\* empty text, for a text with neither brace nor square bracket, and for a
\* text whose bracket-matched candidate does not parse.
C7_NoneNeverRaises ==
  Returned =>
    /\ result.kind # "raise"
    /\ (text = <<>> \/ HasNoBracket(text) \/ CandidateUnparsable(text)) => result = NoneResult

C7_Witness ==
  /\ Returned /\ origin.kind = "raw"
  /\ CandidateUnparsable(text)
  /\ result = NoneResult

(***************************************************************************)
(* Properties of the handlers, checked under Spec (continued)              *)
(***************************************************************************)
\* a text field that is empty or holds whitespace only
Blank(field) == field.kind = "str" /\ field.core = 0

\* a text field that is the empty string
Empty(field) == field.kind = "str" /\ field.lead = 0 /\ field.core = 0

ClientError ==
  /\ response.status = 400
  /\ HasKey(response.body, <<"error">>)
  /\ calls = <<>>
  /\ outcomes = <<>>

\* C8 as claimed: generate_questions with an empty or blank role, and
\* evaluate with an empty question or answer, answer 400 with an error field
\* and make no upstream call.
C8_EmptyFieldsRejected ==
  (\/ GenerateDone /\ ~request.falsy /\ Blank(request.role)
   \/ EvaluateDone /\ ~request.falsy /\ (Empty(request.question) \/ Empty(request.answer)))
    => ClientError

\* C8 as amended: with the client configured, generate_questions with an
\* empty or blank role, and evaluate with an empty or blank question or
\* answer and no field that is not a text, answer 400 with an error field and
\* make no upstream call.
C8_EmptyFieldsRejectedWithClient ==
  (/\ client
   /\ ~request.falsy
   /\ \/ GenerateDone /\ Blank(request.role)
      \/ /\ EvaluateDone
         /\ request.question.kind # "nonstr" /\ request.answer.kind # "nonstr"
         /\ Blank(request.question) \/ Blank(request.answer))
    => ClientError

C8_Witness ==
  /\ client /\ EvaluateDone /\ ~request.falsy
  /\ request.question = StrField(0, 1)
  /\ request.answer = StrField(1, 0)
  /\ ClientError

\* the structural conditions of lines 402-419
Structural(v) ==
  /\ IsList(v)
  /\ Len(v[2]) >= MinQuestions
  /\ \A i \in 1..Len(v[2]) :
       /\ IsDict(v[2][i])
       /\ HasKey(v[2][i], <<"type">>)
       /\ HasKey(v[2][i], <<"question">>)

\* C9: generate_questions answers with success exactly when the value parsed
\* from the ladder is an array of at least six elements each of which is an
\* object with type and question, whatever the type values are, and every
\* success response satisfies these conditions.
C9_SuccessIffStructural ==
  (GenerateDone /\ outcomes # <<>>)
    => /\ SuccessBody(response) <=> Structural(questions)
       /\ SuccessBody(response) => Structural(Get(response.body, <<"questions">>))

TypesOf(v) == {Get(v[2][i], <<"type">>) : i \in 1..Len(v[2])}

\* C10 as claimed: every success response of generate_questions carries
\* exactly six questions, one for each of the six expected types.
C10_ExactlySixOnePerType ==
  (GenerateDone /\ SuccessBody(response))
    => /\ Len(Get(response.body, <<"questions">>)[2]) = 6
       /\ TypesOf(Get(response.body, <<"questions">>)) = {Str(<<t>>) : t \in expected_types}

\* C10 as amended: every success response of generate_questions carries at
\* least six questions, each an object with a type and a question; neither
\* the number above six nor the set of types is enforced.
C10_AtLeastSixWithFields ==
  (GenerateDone /\ SuccessBody(response))
    => Structural(Get(response.body, <<"questions">>))

C10_Witness ==
  /\ GenerateDone /\ SuccessBody(response)
  /\ Get(response.body, <<"questions">>) = SevenQuestions

(***************************************************************************)
(* The score of an evaluate response (lines 541-546)                       *)
(***************************************************************************)
\* the response was built from the value a rung parsed
BuiltFromParsed ==
  /\ EvaluateDone
  /\ outcomes # <<>>
  /\ outcomes[Len(outcomes)] \in ParsedRung

\* the score the model gave: the value of the score key of the parsed
\* object, NoValue when there is none
GivenScore ==
  IF IsDict(evaluation) /\ HasKey(evaluation, <<"score">>)
    THEN Get(evaluation, <<"score">>)
    ELSE NoValue

\* a JSON number: an integer or a float that is not NaN
Numeric(v) == v[1] = "num" \/ (v[1] = "float" /\ v # NaN)

\* neither a number nor a value Python's int() reads as one: a text that is
\* no numeral, null, NaN, an array, an object, or no score at all
NonNumeric(v) ==
  \/ v = NoValue
  \/ v = NaN
  \/ v[1] \in {"null", "arr", "obj"}
  \/ v[1] = "str" /\ ~IntOfStr(v[2]).ok

Above(v, n) ==
  IF v[1] = "num" THEN v[2] > n
  ELSE IF Len(v) = 2 THEN v = Infinity
  ELSE ~v[2] /\ v[3] >= n

Below(v, n) ==
  IF v[1] = "num" THEN v[2] < n
  ELSE IF Len(v) = 2 THEN v = NegInfinity
  ELSE v[2]

ResponseScore == Get(response.body, <<"score">>)

\* C11: in every evaluate response built from a parsed model result the
\* score is an integer from 0 to 10: a numeric score above 10 becomes 10, one
\* below 0 becomes 0, an integer already in range is kept, and a score that
\* is not numeric (a text that is no numeral, null, a missing key) becomes 5.
C11_ScoreClamped ==
  BuiltFromParsed =>
    /\ response.status = 200
    /\ IsDict(response.body)
    /\ HasKey(response.body, <<"score">>)
    /\ ResponseScore[1] = "num"
    /\ ResponseScore[2] \in MinScore..MaxScore
    /\ (Numeric(GivenScore) /\ Above(GivenScore, MaxScore)) => ResponseScore = Num(MaxScore)
    /\ (Numeric(GivenScore) /\ Below(GivenScore, MinScore)) => ResponseScore = Num(MinScore)
    /\ (GivenScore[1] = "num" /\ GivenScore[2] \in MinScore..MaxScore)
         => ResponseScore = GivenScore
    /\ NonNumeric(GivenScore) => ResponseScore = Num(DefaultScore)


(***************************************************************************)
(* The routes without a model client                                       *)
(***************************************************************************)
PageDone == pc = "done" /\ handler \in PageRoutes

HealthDone == pc = "done" /\ handler = "health"

CallDone == pc = "done" /\ handler = "call_gpt_model"

\* generate_questions and evaluate refuse with a 500 JSON error before any
\* model call, the page routes answer as their template allows, and
\* call_gpt_model raises its configuration error without a call
RefusedWithoutCall ==
  /\ pc # "calling"
  /\ sent = 0
  /\ (GenerateDone \/ EvaluateDone)
       => /\ response.status = 500
          /\ HasKey(response.body, <<"error">>)
          /\ calls = <<>>
          /\ outcomes = <<>>
  /\ PageDone => response \in {render_page(handler, found) : found \in BOOLEAN}
  /\ CallDone => result = ConfigurationError

\* C12 as claimed: without a model client generate_questions and evaluate
\* answer a 500 JSON error and make no upstream call whatever the request
\* body, the page routes and /health answer exactly as they do with the
\* client configured, and call_gpt_model raises a configuration error
\* without contacting upstream.
C12_NoClientAsClaimed ==
  ~client =>
    /\ RefusedWithoutCall
    /\ HealthDone => response = health(TRUE, TRUE)

\* the two answers differ at most in the values of the keys given
SameBut(r1, r2, keys) ==
  /\ r1.status = r2.status
  /\ Len(r1.body[2]) = Len(r2.body[2])
  /\ \A i \in 1..Len(r1.body[2]) :
       /\ r1.body[2][i][1] = r2.body[2][i][1]
       /\ r1.body[2][i][1] \notin keys => r1.body[2][i][2] = r2.body[2][i][2]

\* C12 as amended: the same, except that /health, which still answers 200
\* with status healthy and the same model and service, reports
\* openai_client_ready false, and hf_token_configured false when the
\* credential is missing.
C12_NoClientHealthReports ==
  ~client =>
    /\ RefusedWithoutCall
    /\ HealthDone
         => /\ SameBut(response, health(TRUE, TRUE),
                       {<<"hf_token_configured">>, <<"openai_client_ready">>})
            /\ Get(response.body, <<"status">>) = Str(<<"healthy">>)
            /\ Get(response.body, <<"openai_client_ready">>) = <<"false">>
            /\ Get(response.body, <<"hf_token_configured">>) = Bool(hf_token)

C12_Witness ==
  /\ ~client /\ ~hf_token
  /\ EvaluateDone
  /\ request.question = StrField(0, 1) /\ request.answer = StrField(0, 1)
  /\ response.status = 500
  /\ sent = 0

\* further cases of C12 that are reached
C12_HealthReached ==
  ~client /\ ~hf_token /\ HealthDone /\ response = health(FALSE, FALSE)

C12_PageReached ==
  ~client /\ PageDone /\ handler = "interview" /\ response.status = 200

C12_CallReached == ~client /\ CallDone /\ result = ConfigurationError


(***************************************************************************)
(* What the handlers do with the result of extract_json_from_response      *)
(***************************************************************************)
\* the text parses as JSON with an object or an array at top level
ParsesAsContainer(t) == json_loads(t).ok /\ json_loads(t).val[1] \in {"arr", "obj"}

\* C13: every result of extract_json_from_response that is not None,
\* results of fix_truncated_json included, is a text that parses as JSON with
\* an object or an array at top level; so the handlers, parsing the result
\* again (lines 380-396, 502-520), never get JSONDecodeError and never run
\* fix_truncated_json on the extracted text.
C13_ResultsParse ==
  Returned =>
    /\ result.kind \in {"None", "str"}
    /\ result.kind = "str" => ParsesAsContainer(result.str)
    /\ TryExtracted(result).class \in {"parsed", "no_json"}

C13_Witness ==
  /\ Returned /\ origin.kind = "truncated"
  /\ ~json_loads(SubSeq(text, FindStart(text), Len(text))).ok
  /\ result = fix_truncated_json(text)
  /\ result.kind = "str"
  /\ TryExtracted(result).class = "parsed"

\* the same seen from the handlers, under Spec: no rung ever takes the
\* branch that repairs the extracted text
NoRepairInHandlers ==
  \A i \in 1..Len(outcomes) : outcomes[i] \in FailedRung \cup {"parsed"}

============================================================================
